---- MODULE Spec2Model ----
(***************************************************************************)
(* A model of github-repo-finder: GitHubRepoFinder.search_repos,           *)
(* GitHubRepoFinder.search_java_version_repos, _calculate_version_score    *)
(* and analyze_repo (src/github_repo_finder.py), with the argument         *)
(* conversion of the web front end (src/webapp.py).                        *)
(*                                                                         *)
(* The search provider (PyGithub) is the environment: it answers each      *)
(* search call with a stream of hits, and any call made to it may fail.    *)
(* Python's None is the empty tuple <<>> and a present value v is <<v>>.   *)
(* Pass-through fields of a record that no branch of the code reads (url,  *)
(* created_at, age_years, last_updated, size_kb, open_issues) are left out *)
(* of the records.                                                         *)
(***************************************************************************)
EXTENDS Integers, Sequences, FiniteSets, TLC

VARIABLES
    op,             \* the operation called: "java", "generic", "score", "analyze"
    args,           \* the arguments of the call
    pc,             \* position in the operation's code
    version_queries,\* search_java_version_repos: the query strings built
    qi,             \* index (from 1) of the query string being processed
    k,              \* hits the provider has yielded in this run
    all_repos,      \* the records collected (all_repos, or repos in search_repos)
    seen_repos,     \* search_java_version_repos: the names marked as seen
    result,         \* the value returned to the caller
    raised,         \* an exception left the operation
    calls,          \* the query strings handed to g.search_repositories, in order
    faults,         \* provider failures injected so far
    locals,         \* analyze_repo: repo, build_tools, frameworks
    env,            \* the provider of this run: the repositories it knows (hits), how
                    \* many hits its searches yield in one run at most (max_hits)
                    \* and how many of its calls fail at most (max_faults)
    hist            \* history of the run (what the provider did), read by no action

vars == <<op, args, pc, version_queries, qi, k, all_repos, seen_repos, result,
          raised, calls, faults, locals, env, hist>>

----------------------------------------------------------------------------
(* Bounds of the model *)

\* the largest max_results tried in the full search runs
MaxCap == 2
\* the most hits the search calls of one run yield together
MaxHits == 2
\* the most provider failures injected in one full search run
MaxFaults == 1

----------------------------------------------------------------------------
(* Python values *)

NoneV == <<>>
Some(v) == <<v>>
\* truthiness of an Optional[int]: None and 0 are falsy
TruthyInt(o) == o # <<>> /\ o[1] # 0
\* truthiness of an Optional[str] / Optional[list]: None and the empty one are falsy
TruthySeq(o) == o # <<>> /\ Len(o[1]) > 0

UpperAlphabet == "ABCDEFGHIJKLMNOPQRSTUVWXYZ"
LowerAlphabet == "abcdefghijklmnopqrstuvwxyz"

\* the lower-case letter of each upper-case letter
LowerTable ==
    [c \in { SubSeq(UpperAlphabet, i, i) : i \in 1..Len(UpperAlphabet) } |->
        LET i == CHOOSE j \in 1..Len(UpperAlphabet) : SubSeq(UpperAlphabet, j, j) = c
        IN SubSeq(LowerAlphabet, i, i)]

\* str.lower() of one character
LowerChar(c) == IF c \in DOMAIN LowerTable THEN LowerTable[c] ELSE c

RECURSIVE Lower(_)
\* str.lower()
Lower(s) ==
    IF Len(s) = 0 THEN ""
    ELSE LowerChar(SubSeq(s, 1, 1)) \o Lower(SubSeq(s, 2, Len(s)))

\* Python's `sub in s` for strings
Contains(s, sub) ==
    \E i \in 1..(Len(s) - Len(sub) + 1) : SubSeq(s, i, i + Len(sub) - 1) = sub

\* Python's `x in list`
InList(x, list) == \E i \in 1..Len(list) : list[i] = x

RECURSIVE Join(_, _)
\* sep.join(list)
Join(sep, list) ==
    IF Len(list) = 0 THEN ""
    ELSE IF Len(list) = 1 THEN list[1]
    ELSE list[1] \o sep \o Join(sep, Tail(list))

\* s.split('\n')[0]
FirstLine(s) ==
    IF Contains(s, "\n")
    THEN LET i == CHOOSE j \in 1..Len(s) :
                    /\ SubSeq(s, j, j) = "\n"
                    /\ \A m \in 1..(j - 1) : SubSeq(s, m, m) # "\n"
         IN SubSeq(s, 1, i - 1)
    ELSE s

\* the slice bound of last_commit_message
MsgMax == 100

\* s[:n]
Take(s, n) == IF Len(s) <= n THEN s ELSE SubSeq(s, 1, n)

\* '%02d' % n, and '%04d' % n for the years used
Pad2(n) == IF n < 10 THEN "0" \o ToString(n) ELSE ToString(n)

\* date.strftime('%Y-%m-%d %H:%M') of a date <<Y, m, d, H, M>>
Strftime(d) ==
    ToString(d[1]) \o "-" \o Pad2(d[2]) \o "-" \o Pad2(d[3]) \o " "
        \o Pad2(d[4]) \o ":" \o Pad2(d[5])

----------------------------------------------------------------------------
(* The provider's data: what a search can yield *)

\* The repositories a search call can yield.  Two hits name o/a: the provider
\* may return the same repository again with newer data.
Hits ==
    { [full_name |-> "o/a", description |-> Some("Java 11 and JDK11 demo"),
       stargazers_count |-> 50, forks_count |-> 4, language |-> Some("Java"),
       topics |-> <<"Java11">>, contributors |-> 3, commits |-> 40,
       license |-> Some("MIT"), default_branch |-> "main",
       last_commit |-> [date |-> <<2024, 1, 2, 3, 4>>, author |-> "ann",
                        message |-> "init\nbody"]],
      [full_name |-> "o/a", description |-> Some("Java 11 and JDK11 demo"),
       stargazers_count |-> 60, forks_count |-> 4, language |-> Some("Java"),
       topics |-> <<"Java11">>, contributors |-> 3, commits |-> 41,
       license |-> Some("MIT"), default_branch |-> "main",
       last_commit |-> [date |-> <<2024, 1, 9, 3, 4>>, author |-> "ann",
                        message |-> "second"]],
      [full_name |-> "o/b", description |-> NoneV,
       stargazers_count |-> 50, forks_count |-> 0, language |-> NoneV,
       topics |-> <<>>, contributors |-> 1, commits |-> 2,
       license |-> NoneV, default_branch |-> "master",
       last_commit |-> [date |-> <<2023, 12, 31, 23, 59>>, author |-> "bob",
                        message |-> "wip"]],
      [full_name |-> "o/c", description |-> Some("jdk11 stream tools"),
       stargazers_count |-> 70, forks_count |-> 9, language |-> Some("Java"),
       topics |-> <<"java-11", "JDK11">>, contributors |-> 7, commits |-> 90,
       license |-> Some("Apache-2.0"), default_branch |-> "main",
       last_commit |-> [date |-> <<2024, 10, 5, 12, 0>>, author |-> "cy",
                        message |-> "release"]],
      [full_name |-> "o/d", description |-> Some(""),
       stargazers_count |-> 50, forks_count |-> 1, language |-> Some("Kotlin"),
       topics |-> <<>>, contributors |-> 2, commits |-> 5,
       license |-> Some("MIT"), default_branch |-> "dev",
       last_commit |-> [date |-> <<2024, 6, 7, 8, 9>>, author |-> "dee",
                        message |-> "x"]] }

Names == { h.full_name : h \in Hits }

\* The four enrichment sub-fetches, each in a try block of its own
SubFetches == {"contributors", "commits", "license", "last_commit"}

----------------------------------------------------------------------------
(* Query building *)

\* search_repos: the query string, clause by clause
SearchQuery(query, language, topics, stars, forks) ==
    query
      \o (IF TruthySeq(language) THEN " language:" \o language[1] ELSE "")
      \o (IF TruthyInt(stars) THEN " stars:>" \o ToString(stars[1]) ELSE "")
      \o (IF TruthyInt(forks) THEN " forks:>" \o ToString(forks[1]) ELSE "")
      \o (IF TruthySeq(topics)
          THEN Join("", [i \in 1..Len(topics[1]) |-> " topic:" \o topics[1][i]])
          ELSE "")

\* search_java_version_repos: base_query
BaseQuery(stars, build_tool) ==
    "language:Java"
      \o (IF TruthyInt(stars) THEN " stars:>" \o ToString(stars[1]) ELSE "")
      \o (IF build_tool = "maven" THEN " pom.xml"
          ELSE IF build_tool = "gradle" THEN " build.gradle"
          ELSE IF build_tool = "ant" THEN " build.xml"
          ELSE "")

\* variant: an unknown version falls back to a query built from the version
VersionQueriesFallback(java_version, base_query) ==
    IF java_version = "8" THEN
        << base_query \o " (java 8 OR java8 OR jdk8 OR \"1.8\")",
           base_query \o " (lambda OR stream)",
           base_query \o " maven.compiler.source",
           base_query \o " sourceCompatibility" >>
    ELSE
        << base_query \o " (java " \o java_version \o " OR java" \o java_version
               \o " OR jdk" \o java_version \o ")",
           base_query \o " maven.compiler.source " \o java_version,
           base_query \o " sourceCompatibility " \o java_version >>

\* search_java_version_repos: version_queries
VersionQueries(java_version, base_query) ==
    IF java_version = "8" THEN
        << base_query \o " (java 8 OR java8 OR jdk8 OR \"1.8\")",
           base_query \o " (lambda OR stream)",
           base_query \o " maven.compiler.source",
           base_query \o " sourceCompatibility" >>
    ELSE IF java_version = "11" THEN
        << base_query \o " (java 11 OR java11 OR jdk11)",
           base_query \o " maven.compiler.source 11",
           base_query \o " sourceCompatibility 11" >>
    ELSE IF java_version = "17" THEN
        << base_query \o " (java 17 OR java17 OR jdk17)",
           base_query \o " maven.compiler.source 17",
           base_query \o " sourceCompatibility 17" >>
    ELSE IF java_version = "21" THEN
        << base_query \o " (java 21 OR java21 OR jdk21)",
           base_query \o " maven.compiler.source 21",
           base_query \o " sourceCompatibility 21" >>
    ELSE << >>

----------------------------------------------------------------------------
(* Scoring *)

\* variant: the concatenated keyword is listed twice and jdk<v> is missing
VersionKeywordsRepeated(target_version) ==
    << "java " \o target_version, "java" \o target_version, "java" \o target_version >>
      \o (IF target_version = "8" THEN << "1.8", "lambda", "stream" >> ELSE << >>)

\* _calculate_version_score: version_keywords
VersionKeywords(target_version) ==
    << "java " \o target_version, "java" \o target_version, "jdk" \o target_version >>
      \o (IF target_version = "8" THEN << "1.8", "lambda", "stream" >> ELSE << >>)

\* _calculate_version_score: version_topics
VersionTopics(target_version) ==
    << "java" \o target_version, "java-" \o target_version, "jdk" \o target_version >>

\* what one keyword found in the description adds
KeywordPoints == 3
\* what one version topic found among the topics adds
TopicPoints == 5

RECURSIVE KeywordLoop(_, _, _)
\* for keyword in version_keywords: if keyword in description: score += 3
KeywordLoop(keywords, description, score) ==
    IF Len(keywords) = 0 THEN score
    ELSE KeywordLoop(Tail(keywords), description,
                     IF Contains(description, Head(keywords))
                     THEN score + KeywordPoints ELSE score)

RECURSIVE TopicLoop(_, _, _)
\* for topic in version_topics: if topic in topics: score += 5
TopicLoop(version_topics, topics, score) ==
    IF Len(version_topics) = 0 THEN score
    ELSE TopicLoop(Tail(version_topics), topics,
                   IF InList(Head(version_topics), topics)
                   THEN score + TopicPoints ELSE score)

\* _calculate_version_score(repo, target_version), given that get_topics answers
CalculateVersionScore(repo, target_version) ==
    LET description == Lower(IF TruthySeq(repo.description)
                             THEN repo.description[1] ELSE "")
        afterKeywords == KeywordLoop(VersionKeywords(target_version), description, 0)
        topics == [i \in 1..Len(repo.topics) |-> Lower(repo.topics[i])]
    IN TopicLoop(VersionTopics(target_version), topics, afterKeywords)

----------------------------------------------------------------------------
(* Enrichment of one hit.  fails is the set of sub-fetches that raise. *)

\* try: repo.get_contributors().totalCount  except: 0
ContributorsCount(repo, fails) ==
    IF "contributors" \in fails THEN 0 ELSE repo.contributors

\* variant: one try block around all sub-fetches, any failure zeroes the count
CommitsCountAnyFailure(repo, fails) ==
    IF fails # {} THEN 0 ELSE repo.commits

\* try: repo.get_commits().totalCount  except: 0
CommitsCount(repo, fails) ==
    IF "commits" \in fails THEN 0 ELSE repo.commits

\* try: repo.license.name if repo.license else 'No license'  except: 'No license'
LicenseName(repo, fails) ==
    IF "license" \in fails THEN "No license"
    ELSE IF repo.license # NoneV THEN repo.license[1] ELSE "No license"

\* try: the last commit of the default branch  except: the three sentinels
LastCommit(repo, fails) ==
    IF "last_commit" \in fails
    THEN [date |-> "Unknown", author |-> "Unknown",
          message |-> "Unable to fetch commit info"]
    ELSE [date |-> Strftime(repo.last_commit.date),
          author |-> repo.last_commit.author,
          message |-> Take(FirstLine(repo.last_commit.message), MsgMax)]

\* the 'topics' field: ', '.join(repo.get_topics()) if repo.get_topics() else 'None'
TopicsField(repo) ==
    IF Len(repo.topics) > 0 THEN Join(", ", repo.topics) ELSE "None"

\* search_repos: repo_info
RepoInfo(repo, fails) ==
    [name |-> repo.full_name,
     description |-> IF TruthySeq(repo.description)
                     THEN repo.description[1] ELSE "No description",
     stars |-> repo.stargazers_count,
     forks |-> repo.forks_count,
     language |-> IF TruthySeq(repo.language) THEN repo.language[1] ELSE "Unknown",
     topics |-> TopicsField(repo),
     contributors |-> ContributorsCount(repo, fails),
     commits |-> CommitsCount(repo, fails),
     license |-> LicenseName(repo, fails),
     last_commit_date |-> LastCommit(repo, fails).date,
     last_commit_author |-> LastCommit(repo, fails).author,
     last_commit_message |-> LastCommit(repo, fails).message,
     default_branch |-> repo.default_branch]

\* search_java_version_repos: repo_info
JavaRepoInfo(repo, fails, java_version) ==
    [name |-> repo.full_name,
     description |-> IF TruthySeq(repo.description)
                     THEN repo.description[1] ELSE "No description",
     stars |-> repo.stargazers_count,
     forks |-> repo.forks_count,
     language |-> IF TruthySeq(repo.language) THEN repo.language[1] ELSE "Unknown",
     topics |-> TopicsField(repo),
     contributors |-> ContributorsCount(repo, fails),
     commits |-> CommitsCount(repo, fails),
     license |-> LicenseName(repo, fails),
     java_version |-> java_version,
     version_score |-> CalculateVersionScore(repo, java_version),
     last_commit_date |-> LastCommit(repo, fails).date,
     last_commit_author |-> LastCommit(repo, fails).author,
     last_commit_message |-> LastCommit(repo, fails).message,
     default_branch |-> repo.default_branch]

----------------------------------------------------------------------------
(* Cap, ordering and truncation *)

\* variant: the test is off by one (>)
CapReachedAfter(repos, max_results) == Len(repos) > max_results

\* if len(all_repos) >= max_results: break
CapReached(repos, max_results) == Len(repos) >= max_results

\* key=lambda x: (x['version_score'], x['stars']), compared as tuples
KeyGreater(a, b) ==
    \/ a.version_score > b.version_score
    \/ a.version_score = b.version_score /\ a.stars > b.stars

RECURSIVE InsertSortedBeforeEqual(_, _)
\* variant: an unstable order, r is placed before the records of equal key
InsertSortedBeforeEqual(sorted, r) ==
    IF Len(sorted) = 0 THEN << r >>
    ELSE IF ~KeyGreater(Head(sorted), r) THEN << r >> \o sorted
    ELSE << Head(sorted) >> \o InsertSortedBeforeEqual(Tail(sorted), r)

RECURSIVE InsertSorted(_, _)
\* r is placed behind every record whose key is not smaller: equal keys keep
\* their order, as list.sort does (it is stable, also with reverse=True)
InsertSorted(sorted, r) ==
    IF Len(sorted) = 0 THEN << r >>
    ELSE IF KeyGreater(r, Head(sorted)) THEN << r >> \o sorted
    ELSE << Head(sorted) >> \o InsertSorted(Tail(sorted), r)

RECURSIVE SortFrom(_, _)
SortFrom(sorted, rest) ==
    IF Len(rest) = 0 THEN sorted
    ELSE SortFrom(InsertSorted(sorted, Head(rest)), Tail(rest))

\* all_repos.sort(key=..., reverse=True)
SortByScoreAndStars(repos) == SortFrom(<< >>, repos)

\* all_repos[:max_results], for max_results >= 0 (a negative bound counts from the end)
Truncate(repos, max_results) ==
    IF max_results >= 0
    THEN (IF Len(repos) <= max_results THEN repos ELSE SubSeq(repos, 1, max_results))
    ELSE (IF Len(repos) + max_results <= 0 THEN << >>
          ELSE SubSeq(repos, 1, Len(repos) + max_results))

----------------------------------------------------------------------------
(* History of a run *)

\* first[n]: the hit with which the provider first yielded repository n
\* log[i]: the hit, the failed sub-fetches and the query of the i-th record appended
\* search_failed: the queries whose search call raised
\* at_error: the records collected when a search call last raised
\* refused: of the hits met with the cap reached and no record of their own, the
\*          one with the highest score (the earliest of them), with its query
\* passed: the hit last passed over because its name was marked as seen
\* failing: analyze_repo: the lookups that failed
\* logged: analyze_repo: the except handler has printed an error
\* unreachable: analyze_repo: get_repo raised
NoHistory ==
    [first |-> [n \in Names |-> NoneV], log |-> << >>, search_failed |-> {},
     at_error |-> << >>, refused |-> NoneV, passed |-> NoneV, failing |-> {}, logged |-> FALSE,
     unreachable |-> FALSE]

NoteFirst(h, repo) ==
    IF h.first[repo.full_name] = NoneV
    THEN [h EXCEPT !.first[repo.full_name] = Some(repo)]
    ELSE h

RecordNames(repos) == { repos[i].name : i \in 1..Len(repos) }

NoteRefused(h, repos, repo, score, query) ==
    IF repo.full_name \in RecordNames(repos) THEN h
    ELSE IF h.refused # NoneV /\ h.refused[1].score >= score THEN h
    ELSE [h EXCEPT !.refused = Some([name |-> repo.full_name, score |-> score,
                                     query |-> query])]

----------------------------------------------------------------------------
(* search_java_version_repos *)

\* variant: the membership test is left out, every hit counts as new
NotSeenAlways(full_name, seen) == TRUE

\* if repo.full_name not in seen_repos
NotSeen(full_name, seen) == full_name \notin seen

\* the call: version_queries is built, all_repos and seen_repos are empty
JavaStart ==
    /\ op = "java" /\ pc = "start"
    /\ version_queries' =
           VersionQueries(args.java_version, BaseQuery(args.stars, args.build_tool))
    /\ qi' = 1
    /\ pc' = "query"
    /\ UNCHANGED <<op, args, locals, k, all_repos, seen_repos, result, raised, calls,
                   faults, env, hist>>

\* the next query string's search call answers
JavaSearchOk ==
    /\ op = "java" /\ pc = "query" /\ qi <= Len(version_queries)
    /\ calls' = Append(calls, version_queries[qi])
    /\ pc' = "iter"
    /\ UNCHANGED <<op, args, locals, version_queries, qi, k, all_repos, seen_repos, result,
                   raised, faults, env, hist>>

\* variant: the handler leaves the loop over the query strings (break)
AfterQueryErrorBreak(i) == Len(version_queries) + 1

\* where the handler of a failed query goes on: `continue`, the next query string
AfterQueryError(i) == i + 1

\* the next query string's search call raises: except Exception, continue
JavaSearchError ==
    /\ op = "java" /\ pc = "query" /\ qi <= Len(version_queries)
    /\ faults < env.max_faults
    /\ calls' = Append(calls, version_queries[qi])
    /\ faults' = faults + 1
    /\ qi' = AfterQueryError(qi)
    /\ hist' = [hist EXCEPT !.search_failed = @ \cup {qi}, !.at_error = all_repos]
    /\ UNCHANGED <<op, args, locals, pc, version_queries, k, all_repos, seen_repos, result,
                   raised, env>>

\* a hit arrives with the cap reached: break, on to the next query string
JavaHitCap(repo) ==
    /\ op = "java" /\ pc = "iter" /\ k < env.max_hits
    /\ CapReached(all_repos, args.max_results)
    /\ qi' = qi + 1
    /\ pc' = "query"
    /\ hist' = NoteRefused(hist, all_repos, repo,
                           CalculateVersionScore(repo, args.java_version), qi)
    /\ UNCHANGED <<op, args, locals, version_queries, k, all_repos, seen_repos, result,
                   raised, calls, faults, env>>

\* a hit whose name is marked as seen is passed over
JavaHitSeen(repo) ==
    /\ op = "java" /\ pc = "iter" /\ k < env.max_hits
    /\ ~CapReached(all_repos, args.max_results)
    /\ ~NotSeen(repo.full_name, seen_repos)
    /\ k' = k + 1
    /\ hist' = [NoteFirst(hist, repo) EXCEPT !.passed = Some(repo)]
    /\ UNCHANGED <<op, args, locals, pc, version_queries, qi, all_repos, seen_repos, result,
                   raised, calls, faults, env>>

\* a new hit: marked as seen, enriched (the sub-fetches in fails raise), scored, appended
JavaHitBuild(repo, fails) ==
    /\ op = "java" /\ pc = "iter" /\ k < env.max_hits
    /\ ~CapReached(all_repos, args.max_results)
    /\ NotSeen(repo.full_name, seen_repos)
    /\ faults + Cardinality(fails) <= env.max_faults
    /\ faults' = faults + Cardinality(fails)
    /\ seen_repos' = seen_repos \cup {repo.full_name}
    /\ all_repos' = Append(all_repos, JavaRepoInfo(repo, fails, args.java_version))
    /\ k' = k + 1
    /\ hist' = [NoteFirst(hist, repo) EXCEPT
                   !.log = Append(@, [hit |-> repo, fails |-> fails, query |-> qi])]
    /\ UNCHANGED <<op, args, locals, pc, version_queries, qi, result, raised, calls, env>>

\* a new hit is marked as seen and then a call outside the four try blocks raises
\* (repo.get_topics, in _calculate_version_score or in repo_info): the query's
\* except Exception takes over, continue
JavaHitAbort(repo) ==
    /\ op = "java" /\ pc = "iter" /\ k < env.max_hits
    /\ ~CapReached(all_repos, args.max_results)
    /\ NotSeen(repo.full_name, seen_repos)
    /\ faults < env.max_faults
    /\ faults' = faults + 1
    /\ seen_repos' = seen_repos \cup {repo.full_name}
    /\ qi' = AfterQueryError(qi)
    /\ pc' = "query"
    /\ hist' = NoteFirst(hist, repo)
    /\ UNCHANGED <<op, args, locals, version_queries, k, all_repos, result, raised, calls, env>>

\* the result stream ends
JavaStreamEnd ==
    /\ op = "java" /\ pc = "iter"
    /\ qi' = qi + 1
    /\ pc' = "query"
    /\ UNCHANGED <<op, args, locals, version_queries, k, all_repos, seen_repos, result,
                   raised, calls, faults, locals, env, hist>>

\* fetching the next page of the result stream raises: except Exception, continue
JavaIterError ==
    /\ op = "java" /\ pc = "iter"
    /\ faults < env.max_faults
    /\ faults' = faults + 1
    /\ qi' = AfterQueryError(qi)
    /\ pc' = "query"
    /\ UNCHANGED <<op, args, locals, version_queries, k, all_repos, seen_repos, result,
                   raised, calls, env, hist>>

\* after the last query string: sort in place, slice, return
JavaFinish ==
    /\ op = "java" /\ pc = "query" /\ qi > Len(version_queries)
    /\ all_repos' = SortByScoreAndStars(all_repos)
    /\ result' = Truncate(all_repos', args.max_results)
    /\ pc' = "done"
    /\ UNCHANGED <<op, args, locals, version_queries, qi, k, seen_repos, raised, calls,
                   faults, env, hist>>

----------------------------------------------------------------------------
(* search_repos *)

\* the one search call answers
GenericSearchOk ==
    /\ op = "generic" /\ pc = "start"
    /\ calls' = Append(calls, SearchQuery(args.query, args.language, args.topics,
                                          args.stars, args.forks))
    /\ k' = 0
    /\ pc' = "iter"
    /\ UNCHANGED <<op, args, locals, version_queries, qi, all_repos, seen_repos, result,
                   raised, faults, env, hist>>

\* the one search call raises: except Exception, the empty list is returned
GenericSearchError ==
    /\ op = "generic" /\ pc = "start"
    /\ faults < env.max_faults
    /\ calls' = Append(calls, SearchQuery(args.query, args.language, args.topics,
                                          args.stars, args.forks))
    /\ faults' = faults + 1
    /\ result' = all_repos
    /\ pc' = "done"
    /\ hist' = [hist EXCEPT !.search_failed = @ \cup {1}]
    /\ UNCHANGED <<op, args, locals, version_queries, qi, k, all_repos, seen_repos, raised, env>>

\* a hit arrives with the cap reached: break, return
GenericHitCap(repo) ==
    /\ op = "generic" /\ pc = "iter" /\ k < env.max_hits
    /\ CapReached(all_repos, args.max_results)
    /\ result' = all_repos
    /\ pc' = "done"
    /\ hist' = NoteRefused(hist, all_repos, repo, 0, 1)
    /\ UNCHANGED <<op, args, locals, version_queries, qi, k, all_repos, seen_repos, raised,
                   calls, faults, env>>

\* a hit is enriched (the sub-fetches in fails raise) and appended
GenericHitBuild(repo, fails) ==
    /\ op = "generic" /\ pc = "iter" /\ k < env.max_hits
    /\ ~CapReached(all_repos, args.max_results)
    /\ faults + Cardinality(fails) <= env.max_faults
    /\ faults' = faults + Cardinality(fails)
    /\ all_repos' = Append(all_repos, RepoInfo(repo, fails))
    /\ k' = k + 1
    /\ hist' = [NoteFirst(hist, repo) EXCEPT
                   !.log = Append(@, [hit |-> repo, fails |-> fails, query |-> 1])]
    /\ UNCHANGED <<op, args, locals, pc, version_queries, qi, seen_repos, result, raised,
                   calls, env>>

\* a call outside the four try blocks raises (repo.get_topics): the search's
\* except Exception takes over and what was collected is returned
GenericHitAbort(repo) ==
    /\ op = "generic" /\ pc = "iter" /\ k < env.max_hits
    /\ ~CapReached(all_repos, args.max_results)
    /\ faults < env.max_faults
    /\ faults' = faults + 1
    /\ result' = all_repos
    /\ pc' = "done"
    /\ hist' = NoteFirst(hist, repo)
    /\ UNCHANGED <<op, args, locals, version_queries, qi, k, all_repos, seen_repos, raised,
                   calls, env>>

\* the result stream ends: return
GenericStreamEnd ==
    /\ op = "generic" /\ pc = "iter"
    /\ result' = all_repos
    /\ pc' = "done"
    /\ UNCHANGED <<op, args, locals, version_queries, qi, k, all_repos, seen_repos, raised,
                   calls, faults, env, hist>>

\* fetching the next page raises: except Exception, what was collected is returned
GenericIterError ==
    /\ op = "generic" /\ pc = "iter"
    /\ faults < env.max_faults
    /\ faults' = faults + 1
    /\ result' = all_repos
    /\ pc' = "done"
    /\ UNCHANGED <<op, args, locals, version_queries, qi, k, all_repos, seen_repos, raised,
                   calls, env, hist>>

----------------------------------------------------------------------------
(* _calculate_version_score called on its own *)

\* the score is returned
ScoreCall ==
    /\ op = "score" /\ pc = "start"
    /\ result' = CalculateVersionScore(args.repo, args.target_version)
    /\ pc' = "done"
    /\ UNCHANGED <<op, args, locals, version_queries, qi, k, all_repos, seen_repos,
                   raised, calls, faults, env, hist>>

\* repo.get_topics() raises: nothing catches it inside _calculate_version_score
ScoreTopicsError ==
    /\ op = "score" /\ pc = "start"
    /\ faults < env.max_faults
    /\ faults' = faults + 1
    /\ raised' = TRUE
    /\ pc' = "done"
    /\ UNCHANGED <<op, args, locals, version_queries, qi, k, all_repos, seen_repos,
                   result, calls, env, hist>>

----------------------------------------------------------------------------
(* analyze_repo *)

RECURSIVE StripLeft(_, _)
StripLeft(s, c) ==
    IF Len(s) > 0 /\ SubSeq(s, 1, 1) = c THEN StripLeft(SubSeq(s, 2, Len(s)), c) ELSE s

RECURSIVE StripRight(_, _)
StripRight(s, c) ==
    IF Len(s) > 0 /\ SubSeq(s, Len(s), Len(s)) = c
    THEN StripRight(SubSeq(s, 1, Len(s) - 1), c) ELSE s

\* s.strip(c)
Strip(s, c) == StripRight(StripLeft(s, c), c)

RECURSIVE Split(_, _)
\* s.split(c), c one character
Split(s, c) ==
    IF Contains(s, c)
    THEN LET i == CHOOSE j \in 1..Len(s) :
                    /\ SubSeq(s, j, j) = c
                    /\ \A m \in 1..(j - 1) : SubSeq(s, m, m) # c
         IN << SubSeq(s, 1, i - 1) >> \o Split(SubSeq(s, i + 1, Len(s)), c)
    ELSE << s >>

\* variant: the URL is split without stripping the slashes at its ends
UrlPartsNoStrip(repo_url) == Split(repo_url, "/")

\* parts = repo_url.strip('/').split('/')
UrlParts(repo_url) == Split(Strip(repo_url, "/"), "/")

\* owner, repo_name = parts[-2], parts[-1] raises IndexError on fewer than two parts
UrlParses(repo_url) == Len(UrlParts(repo_url)) >= 2

\* f"{owner}/{repo_name}"
RepoPath(repo_url) ==
    LET parts == UrlParts(repo_url)
    IN parts[Len(parts) - 1] \o "/" \o parts[Len(parts)]

\* the empty mapping returned on failure
EmptyDict == << >>

\* The repositories get_repo can answer with.  package_json is None (no such file)
\* or the file: its text, and what a JSON parser makes of the text (None when it
\* does not parse, else the names under "dependencies", None without that key).
PackageFiles ==
    { NoneV,
      Some([text |-> "", parsed |-> NoneV]),
      Some([text |-> "{}", parsed |-> Some([dependencies |-> NoneV])]),
      Some([text |-> "{\"dependencies\": {\"@angular/core\": \"17\"}}",
            parsed |-> Some([dependencies |-> Some({"@angular/core"})])]),
      Some([text |-> "{\"dependencies\": {\"react\": \"18\"}}",
            parsed |-> Some([dependencies |-> Some({"react"})])]),
      Some([text |-> "{\"devDependencies\": {\"@angular/core\": \"17\"}}",
            parsed |-> Some([dependencies |-> NoneV])]),
      Some([text |-> "dependencies: @angular/core", parsed |-> NoneV]) }

RemoteRepos ==
    [full_name : {"ownerX/repoY"}, html_url : {"https://host/ownerX/repoY"},
     language : {Some("Java")}, topics : {<<"web">>},
     pom_xml : BOOLEAN, build_xml : BOOLEAN, package_json : PackageFiles]

\* the lookups analyze_repo makes, each of which may fail
Lookups == {"pom.xml", "build.xml", "package.json", "package.json content"}

\* _check_file_exists: True when get_contents answers, False when it raises
\* (the file is missing, or the lookup fails)
CheckFileExists(present, lookup_fails) == present /\ ~lookup_fails

\* _get_file_content: the decoded text, or None when get_contents raises
GetFileContent(file, lookup_fails) ==
    IF file = NoneV \/ lookup_fails THEN NoneV ELSE Some(file[1].text)

\* `package_json and 'dependencies' in package_json`, package_json a str or None
HasDependencies(package_json) ==
    /\ TruthySeq(package_json)
    /\ Contains(package_json[1], "dependencies")

\* package_json['dependencies'] with package_json a str: str indices must be
\* integers, so the subscript raises TypeError whatever the text is
SubscriptRaises(package_json) == TRUE

\* the URL does not parse (IndexError): except Exception, return {}
AnalyzeBadUrl ==
    /\ op = "analyze" /\ pc = "start"
    /\ ~UrlParses(args.repo_url)
    /\ result' = EmptyDict
    /\ pc' = "done"
    /\ hist' = [hist EXCEPT !.logged = TRUE]
    /\ UNCHANGED <<op, args, locals, version_queries, qi, k, all_repos, seen_repos,
                   raised, calls, faults, env>>

\* g.get_repo answers
AnalyzeGetRepo ==
    /\ op = "analyze" /\ pc = "start"
    /\ \E repo \in RemoteRepos :
           locals' = [repo |-> repo, build_tools |-> << >>, frameworks |-> << >>]
    /\ UrlParses(args.repo_url)
    /\ calls' = Append(calls, RepoPath(args.repo_url))
    /\ pc' = "build_tools"
    /\ UNCHANGED <<op, args, version_queries, qi, k, all_repos, seen_repos, result,
                   raised, faults, env, hist>>

\* g.get_repo raises: except Exception, return {}
AnalyzeGetRepoError ==
    /\ op = "analyze" /\ pc = "start"
    /\ UrlParses(args.repo_url)
    /\ faults < env.max_faults
    /\ faults' = faults + 1
    /\ calls' = Append(calls, RepoPath(args.repo_url))
    /\ result' = EmptyDict
    /\ pc' = "done"
    /\ hist' = [hist EXCEPT !.logged = TRUE, !.unreachable = TRUE]
    /\ UNCHANGED <<op, args, locals, version_queries, qi, k, all_repos, seen_repos,
                   raised, env>>

\* build_tools: maven for pom.xml, then ant for build.xml
AnalyzeBuildTools(failing) ==
    /\ op = "analyze" /\ pc = "build_tools"
    /\ failing \subseteq {"pom.xml", "build.xml"}
    /\ faults + Cardinality(failing) <= env.max_faults
    /\ faults' = faults + Cardinality(failing)
    /\ locals' = [locals EXCEPT !.build_tools =
           (IF CheckFileExists(locals.repo.pom_xml, "pom.xml" \in failing)
            THEN << "maven" >> ELSE << >>)
           \o (IF CheckFileExists(locals.repo.build_xml, "build.xml" \in failing)
               THEN << "ant" >> ELSE << >>)]
    /\ pc' = "frameworks"
    /\ hist' = [hist EXCEPT !.failing = @ \cup failing]
    /\ UNCHANGED <<op, args, version_queries, qi, k, all_repos, seen_repos, result,
                   raised, calls, env>>

\* frameworks: package.json is looked up, fetched and searched for @angular/core
AnalyzeFrameworks(failing) ==
    LET exists == CheckFileExists(locals.repo.package_json # NoneV,
                                  "package.json" \in failing)
        package_json == GetFileContent(locals.repo.package_json,
                                       "package.json content" \in failing)
        \* TypeError: except Exception, return {}
        raises == exists /\ HasDependencies(package_json) /\ SubscriptRaises(package_json)
    IN /\ op = "analyze" /\ pc = "frameworks"
       /\ failing \subseteq {"package.json", "package.json content"}
       /\ "package.json content" \in failing => exists
       /\ faults + Cardinality(failing) <= env.max_faults
       /\ faults' = faults + Cardinality(failing)
       /\ hist' = [hist EXCEPT !.failing = @ \cup failing, !.logged = raises]
       /\ locals' = IF exists /\ HasDependencies(package_json) /\ ~raises
                       /\ Contains(package_json[1], "@angular/core")
                    THEN [locals EXCEPT !.frameworks = << "angular" >>]
                    ELSE locals
       /\ result' = IF raises THEN EmptyDict ELSE result
       /\ pc' = IF raises THEN "done" ELSE "return"
       /\ UNCHANGED <<op, args, version_queries, qi, k, all_repos, seen_repos, raised,
                      calls, env>>

\* the analysis is returned
AnalyzeReturn ==
    /\ op = "analyze" /\ pc = "return"
    /\ result' = [name |-> locals.repo.full_name, url |-> locals.repo.html_url,
                  build_tools |-> locals.build_tools,
                  frameworks |-> locals.frameworks,
                  language |-> locals.repo.language, topics |-> locals.repo.topics]
    /\ pc' = "done"
    /\ UNCHANGED <<op, args, locals, version_queries, qi, k, all_repos, seen_repos,
                   raised, calls, faults, env, hist>>

\* repo.get_topics() raises while the result is built: except Exception, return {}
AnalyzeTopicsError ==
    /\ op = "analyze" /\ pc = "return"
    /\ faults < env.max_faults
    /\ faults' = faults + 1
    /\ result' = EmptyDict
    /\ pc' = "done"
    /\ hist' = [hist EXCEPT !.logged = TRUE, !.failing = @ \cup {"topics"}]
    /\ UNCHANGED <<op, args, locals, version_queries, qi, k, all_repos, seen_repos,
                   raised, calls, env>>

----------------------------------------------------------------------------
(* The web front end: /search turns the JSON body into search_repos' arguments. *)
(* A JSON number is [num |-> n], a string [str |-> s], a list [list |-> l];     *)
(* a key the body lacks is None.                                               *)

\* truthiness of data.get(key)
JsonTruthy(v) ==
    /\ v # NoneV
    /\ "num" \in DOMAIN v[1] => v[1].num # 0
    /\ "str" \in DOMAIN v[1] => Len(v[1].str) > 0
    /\ "list" \in DOMAIN v[1] => Len(v[1].list) > 0

Digits == "0123456789"

DigitValue(c) == (CHOOSE i \in 1..Len(Digits) : SubSeq(Digits, i, i) = c) - 1

RECURSIVE ParseDigits(_, _)
ParseDigits(s, acc) ==
    IF Len(s) = 0 THEN acc
    ELSE ParseDigits(SubSeq(s, 2, Len(s)), 10 * acc + DigitValue(SubSeq(s, 1, 1)))

\* int(v) of a JSON number or of a string of digits
PyInt(v) == IF "num" \in DOMAIN v THEN v.num ELSE ParseDigits(v.str, 0)

\* max_results when the body names none
WebDefaultMaxResults == 20

\* search_repositories (webapp): the arguments handed to finder.search_repos
WebSearchArgs(data) ==
    [query |-> IF data.query = NoneV THEN "" ELSE data.query[1].str,
     language |-> IF data.language = NoneV THEN NoneV ELSE Some(data.language[1].str),
     topics |-> IF JsonTruthy(data.topics) THEN Some(data.topics[1].list) ELSE NoneV,
     stars |-> IF JsonTruthy(data.stars) THEN Some(PyInt(data.stars[1])) ELSE NoneV,
     forks |-> IF JsonTruthy(data.forks) THEN Some(PyInt(data.forks[1])) ELSE NoneV,
     max_results |-> IF data.max_results = NoneV THEN WebDefaultMaxResults
                     ELSE PyInt(data.max_results[1])]

----------------------------------------------------------------------------
(* The calls made *)

\* the most hits the searches yield in the runs that vary the arguments
FewHits == 1

\* full search runs: few arguments, a provider that yields and fails freely
JavaArgs ==
    [java_version : {"11", "9"}, build_tool : {""}, stars : {NoneV},
     max_results : 1..MaxCap]

GenericArgs ==
    [query : {"parser"}, language : {Some("Rust")}, topics : {NoneV},
     stars : {Some(100)}, forks : {NoneV}, max_results : 1..MaxCap]

\* runs that vary the arguments
JavaArgsWide ==
    [java_version : {"8", "11", "17", "21", "9", "1.8", ""},
     build_tool : {"", "maven", "gradle", "ant", "sbt"},
     stars : {NoneV, Some(0), Some(100)},
     max_results : {0, 1, 5}]

GenericArgsWide ==
    [query : {"parser", ""}, language : {NoneV, Some(""), Some("Rust")},
     topics : {NoneV, Some(<< >>), Some(<<"cli">>), Some(<<"cli", "json">>)},
     stars : {NoneV, Some(0), Some(100)}, forks : {NoneV, Some(0), Some(5)},
     max_results : {1}]

WebBodies ==
    [query : {NoneV, Some([str |-> "parser"])},
     language : {NoneV, Some([str |-> "Rust"])},
     topics : {NoneV, Some([list |-> << >>]), Some([list |-> <<"cli">>])},
     stars : {NoneV, Some([num |-> 0]), Some([num |-> 100]),
              Some([str |-> "0"]), Some([str |-> "100"]), Some([str |-> ""])},
     forks : {NoneV, Some([str |-> "5"])},
     max_results : {NoneV, Some([num |-> 1])}]

ScoreArgs ==
    [repo : [description :
                 { NoneV, Some(""), Some("plain text"), Some("Java 8"),
                   Some("java8"), Some("JDK8 and Java8"),
                   Some("uses 1.8 Lambda Stream"),
                   Some("Java 8 java8 jdk8 1.8 lambda stream"),
                   Some("java 8, Java 8"), Some("streams of java 81"),
                   Some("Java 11 / java11"), Some("jdk11"), Some("JAVA 17 jdk17") },
             topics :
                 { << >>, <<"java8">>, <<"Java8", "java-8">>,
                   <<"java8", "java-8", "jdk8">>, <<"java8", "JAVA8">>,
                   <<"java11", "jdk11">>, <<"java">>, <<"java88", "xjdk8">> }],
     target_version : {"8", "11", "17", "9"}]

AnalyzeArgs ==
    [repo_url : { "https://host/ownerX/repoY", "https://host/ownerX/repoY/",
                  "ownerX/repoY", "/ownerX/repoY/", "repoY", "repoY/", "", "/" }]

InitCall(o, a, e) ==
    /\ op = o /\ args = a /\ env = e
    /\ pc = "start"
    /\ version_queries = << >> /\ qi = 0 /\ k = 0
    /\ all_repos = << >> /\ seen_repos = {}
    /\ result = << >> /\ raised = FALSE
    /\ calls = << >> /\ faults = 0
    /\ locals = << >>
    /\ hist = NoHistory

\* the provider of the full search runs
FullProvider == [max_hits |-> MaxHits, max_faults |-> MaxFaults, hits |-> Hits]
\* the provider of the runs that vary the arguments: it knows one repository
\* and none of its calls fails
SmallProvider ==
    [max_hits |-> FewHits, max_faults |-> 0,
     hits |-> { h \in Hits : h.full_name = "o/c" }]

Init ==
    \/ \E a \in JavaArgs : InitCall("java", a, FullProvider)
    \/ \E a \in GenericArgs : InitCall("generic", a, FullProvider)
    \/ \E a \in JavaArgsWide : InitCall("java", a, SmallProvider)
    \/ \E a \in GenericArgsWide : InitCall("generic", a, SmallProvider)
    \/ \E data \in WebBodies : InitCall("generic", WebSearchArgs(data), SmallProvider)
    \/ \E a \in ScoreArgs : InitCall("score", a, FullProvider)
    \/ \E a \in AnalyzeArgs : InitCall("analyze", a, FullProvider)

Next ==
    \/ JavaStart
    \/ JavaSearchOk
    \/ JavaSearchError
    \/ \E repo \in env.hits : JavaHitCap(repo)
    \/ \E repo \in env.hits : JavaHitSeen(repo)
    \/ \E repo \in env.hits, fails \in SUBSET SubFetches : JavaHitBuild(repo, fails)
    \/ \E repo \in env.hits : JavaHitAbort(repo)
    \/ JavaStreamEnd
    \/ JavaIterError
    \/ JavaFinish
    \/ GenericSearchOk
    \/ GenericSearchError
    \/ \E repo \in env.hits : GenericHitCap(repo)
    \/ \E repo \in env.hits, fails \in SUBSET SubFetches : GenericHitBuild(repo, fails)
    \/ \E repo \in env.hits : GenericHitAbort(repo)
    \/ GenericStreamEnd
    \/ GenericIterError
    \/ ScoreCall
    \/ ScoreTopicsError
    \/ AnalyzeBadUrl
    \/ AnalyzeGetRepo
    \/ AnalyzeGetRepoError
    \/ \E failing \in SUBSET Lookups : AnalyzeBuildTools(failing)
    \/ \E failing \in SUBSET Lookups : AnalyzeFrameworks(failing)
    \/ AnalyzeReturn
    \/ AnalyzeTopicsError

Spec == Init /\ [][Next]_vars

----------------------------------------------------------------------------
(* What the claims speak of *)

Min(a, b) == IF a <= b THEN a ELSE b

Range(seq) == { seq[i] : i \in 1..Len(seq) }

\* the repositories the provider has yielded so far
Yielded == { n \in Names : hist.first[n] # NoneV }

\* the record appended for the i-th entry of the log (all_repos is sorted in
\* place at the end of search_java_version_repos, the log is not)
RecordOf(i) ==
    IF op = "java"
    THEN CHOOSE r \in Range(all_repos) : r.name = hist.log[i].hit.full_name
    ELSE all_repos[i]

\* the place of a repository in the order of encounter
Encounter(name) == CHOOSE i \in 1..Len(hist.log) : hist.log[i].hit.full_name = name

\* the record of a hit when no sub-fetch fails
CleanRecord(repo) ==
    IF op = "java" THEN JavaRepoInfo(repo, {}, args.java_version) ELSE RepoInfo(repo, {})

\* the fields a sub-fetch fills, and the sentinel of each
FieldsOf(fetch) ==
    IF fetch = "last_commit"
    THEN {"last_commit_date", "last_commit_author", "last_commit_message"}
    ELSE {fetch}

Sentinel(f) ==
    CASE f = "contributors" -> 0
      [] f = "commits" -> 0
      [] f = "license" -> "No license"
      [] f = "last_commit_date" -> "Unknown"
      [] f = "last_commit_author" -> "Unknown"
      [] f = "last_commit_message" -> "Unable to fetch commit info"

----------------------------------------------------------------------------
(* C1: the list search_java_version_repos collects and returns never holds two *)
(* records of the same full name, whatever the provider yields and wherever a  *)
(* query fails, and the record of a repository is the one built from the hit   *)
(* with which the repository was first met.                                    *)

NoDuplicates(repos) ==
    \A i, j \in 1..Len(repos) : i # j => repos[i].name # repos[j].name

C1_NoDuplicateFirstKept ==
    op = "java" =>
        /\ NoDuplicates(all_repos)
        /\ NoDuplicates(result)
        /\ \A i \in 1..Len(result) :
               /\ hist.first[result[i].name] # NoneV
               /\ \E fails \in SUBSET SubFetches :
                      result[i] = JavaRepoInfo(hist.first[result[i].name][1], fails,
                                               args.java_version)

\* a run that returned the record of a repository that was met again with other data
C1_Witness ==
    /\ op = "java" /\ pc = "done"
    /\ hist.passed # NoneV
    /\ hist.passed[1].full_name \in RecordNames(result)
    /\ hist.passed[1] # hist.first[hist.passed[1].full_name][1]

----------------------------------------------------------------------------
(* C2: with max_results = n > 0 both searches return at most n records, and    *)
(* when no provider call fails exactly min(n, number of distinct repositories  *)
(* the issued queries made available).  When a hit was refused at the cap the  *)
(* rest of the stream is not known, and the count is required only where the   *)
(* repositories met already number n.                                          *)

C2_CapAndCount ==
    (op \in {"java", "generic"} /\ pc = "done" /\ args.max_results > 0) =>
        /\ Len(result) <= args.max_results
        /\ faults = 0 =>
              IF hist.refused = NoneV
              THEN Len(result) = Min(args.max_results, Cardinality(Yielded))
              ELSE Cardinality(Yielded \cup {hist.refused[1].name}) >= args.max_results
                       => Len(result) = args.max_results

\* the same of search_java_version_repos alone
C2_JavaCapAndCount ==
    op = "java" => C2_CapAndCount

----------------------------------------------------------------------------
(* C3: in search_java_version_repos a search call that raises never ends the   *)
(* aggregation: no exception leaves the operation, the query strings are all   *)
(* issued, in order, the records collected before the error are in the         *)
(* returned list, and no record comes from a query whose search call raised.   *)

C3_SearchErrorDoesNotAbort ==
    op = "java" =>
        /\ ~raised
        /\ Len(calls) <= Len(version_queries)
        /\ calls = SubSeq(version_queries, 1, Len(calls))
        /\ pc = "done" => calls = version_queries
        /\ \A i \in 1..Len(hist.log) : hist.log[i].query \notin hist.search_failed
        /\ pc = "done" => \A i \in 1..Len(hist.at_error) : hist.at_error[i] \in Range(result)

\* a search call raised with records collected, and a later query added a record
C3_Witness ==
    /\ op = "java" /\ pc = "done"
    /\ Len(hist.at_error) > 0
    /\ \E q \in hist.search_failed :
           \E i \in 1..Len(hist.log) : hist.log[i].query > q

----------------------------------------------------------------------------
(* C4: in both searches, when at most one of the four sub-fetches fails while  *)
(* a hit is enriched, the record is appended all the same, the fields of the   *)
(* failed sub-fetch hold their sentinels and every other field holds the value *)
(* it has without the failure; the records of the other hits are as they are   *)
(* without any failure, and all of them are returned.                          *)

C4_OneFailureOneSentinel ==
    op \in {"java", "generic"} =>
        /\ Len(all_repos) = Len(hist.log)
        /\ \A i \in 1..Len(hist.log) :
               LET e == hist.log[i]
                   failed == UNION { FieldsOf(fetch) : fetch \in e.fails }
                   r == RecordOf(i)
                   clean == CleanRecord(e.hit)
               IN Cardinality(e.fails) <= 1 =>
                      /\ DOMAIN r = DOMAIN clean
                      /\ \A f \in DOMAIN r :
                             IF f \in failed THEN r[f] = Sentinel(f) ELSE r[f] = clean[f]
        /\ pc = "done" =>
               /\ Len(result) = Len(hist.log)
               /\ \A i \in 1..Len(hist.log) : RecordOf(i) \in Range(result)

\* a search returned two records, one of them built with exactly one failed sub-fetch
C4_Witness ==
    /\ op = "java" /\ pc = "done"
    /\ Len(result) >= 2
    /\ \E i \in 1..Len(hist.log) :
           /\ Cardinality(hist.log[i].fails) = 1
           /\ RecordOf(i) # CleanRecord(hist.log[i].hit)

----------------------------------------------------------------------------
(* C5: the list search_java_version_repos returns is in descending order of    *)
(* (version_score, stars), and records of equal score and equal stars are in   *)
(* the order in which they were first encountered.                             *)

C5_SortedStable ==
    (op = "java" /\ pc = "done") =>
        /\ \A i \in 1..(Len(result) - 1) :
               \/ result[i].version_score > result[i + 1].version_score
               \/ /\ result[i].version_score = result[i + 1].version_score
                  /\ result[i].stars >= result[i + 1].stars
        /\ \A i, j \in 1..Len(result) :
               (/\ i < j
                /\ result[i].version_score = result[j].version_score
                /\ result[i].stars = result[j].stars)
               => Encounter(result[i].name) < Encounter(result[j].name)

\* two records of equal score and stars were returned
C5_Witness ==
    /\ op = "java" /\ pc = "done"
    /\ Len(result) >= 2
    /\ result[1].version_score = result[2].version_score
    /\ result[1].stars = result[2].stars

----------------------------------------------------------------------------
(* C6: _calculate_version_score(repo, v) is 3 times the number of distinct     *)
(* keywords of v's list found in the lower-cased description plus 5 times the  *)
(* number of topic variants of v equal to a lower-cased topic; so one more     *)
(* keyword present adds exactly 3, one more matching topic adds exactly 5, and *)
(* the score is never negative.  The same holds of the version_score of every  *)
(* record search_java_version_repos builds.                                    *)

KeywordsOf(v) ==
    {"java " \o v, "java" \o v, "jdk" \o v}
        \cup (IF v = "8" THEN {"1.8", "lambda", "stream"} ELSE {})

TopicVariantsOf(v) == {"java" \o v, "java-" \o v, "jdk" \o v}

KeywordsPresent(repo, v) ==
    LET description == IF repo.description = NoneV THEN "" ELSE Lower(repo.description[1])
    IN { kw \in KeywordsOf(v) : Contains(description, kw) }

TopicsPresent(repo, v) ==
    { t \in TopicVariantsOf(v) : \E i \in 1..Len(repo.topics) : Lower(repo.topics[i]) = t }

ScoreFormula(repo, v) ==
    3 * Cardinality(KeywordsPresent(repo, v)) + 5 * Cardinality(TopicsPresent(repo, v))

C6_ScoreFormula ==
    /\ (op = "score" /\ pc = "done" /\ ~raised) =>
           LET v == args.target_version
           IN /\ result = ScoreFormula(args.repo, v)
              /\ result >= 0
              /\ \A other \in ScoreArgs :
                     other.target_version = v =>
                         LET more == KeywordsPresent(other.repo, v) \ KeywordsPresent(args.repo, v)
                             less == KeywordsPresent(args.repo, v) \ KeywordsPresent(other.repo, v)
                             moreT == TopicsPresent(other.repo, v) \ TopicsPresent(args.repo, v)
                             lessT == TopicsPresent(args.repo, v) \ TopicsPresent(other.repo, v)
                         IN /\ (Cardinality(more) = 1 /\ less = {} /\ moreT = {} /\ lessT = {})
                                => CalculateVersionScore(other.repo, v) = result + 3
                            /\ (Cardinality(moreT) = 1 /\ lessT = {} /\ more = {} /\ less = {})
                                => CalculateVersionScore(other.repo, v) = result + 5
    /\ op = "java" =>
           \A i \in 1..Len(hist.log) :
               RecordOf(i).version_score = ScoreFormula(hist.log[i].hit, args.java_version)

\* every keyword and every topic variant of version 8 is found: 6 * 3 + 3 * 5
C6_Witness ==
    /\ op = "score" /\ pc = "done" /\ ~raised
    /\ args.target_version = "8"
    /\ Cardinality(KeywordsPresent(args.repo, "8")) = 6
    /\ Cardinality(TopicsPresent(args.repo, "8")) = 3
    /\ result = 33

----------------------------------------------------------------------------
(* C7, as claimed: the cap counts what each query supplies on its own, so a    *)
(* hit is refused only when its query alone has supplied max_results records,  *)
(* and a repository refused after earlier queries filled the list is returned  *)
(* all the same when it outscores a record of an earlier query.                *)

C7_PerQueryCap ==
    (op = "java" /\ hist.refused # NoneV) =>
        LET r == hist.refused[1]
        IN /\ Cardinality({ i \in 1..Len(hist.log) : hist.log[i].query = r.query })
                  >= args.max_results
           /\ pc = "done" =>
                  ((\E i \in 1..Len(hist.log) :
                        /\ hist.log[i].query < r.query
                        /\ RecordOf(i).version_score < r.score)
                   => r.name \in RecordNames(result))

(* C7, amended: the cap counts the merged list across all queries: a hit is    *)
(* refused exactly when all_repos already holds max_results records, whichever *)
(* queries supplied them, so all_repos never exceeds the cap, the final slice  *)
(* removes nothing and the returned list is all_repos in (score, stars)        *)
(* descending order; a repository first met with the cap reached is not in the *)
(* result, whatever its score.                                                 *)

C7_GlobalCap ==
    op = "java" =>
        /\ args.max_results >= 0 => Len(all_repos) <= args.max_results
        /\ hist.refused # NoneV =>
               /\ Len(all_repos) >= args.max_results
               /\ hist.refused[1].name \notin RecordNames(all_repos)
        /\ pc = "done" =>
               /\ result = all_repos
               /\ result = SortByScoreAndStars(result)
               /\ hist.refused # NoneV => hist.refused[1].name \notin RecordNames(result)

\* a later query yielded a repository that outscores a returned record of an
\* earlier query, and the repository was refused
C7_Witness ==
    /\ op = "java" /\ pc = "done"
    /\ hist.refused # NoneV
    /\ \E i \in 1..Len(hist.log) :
           /\ hist.log[i].query < hist.refused[1].query
           /\ RecordOf(i).version_score < hist.refused[1].score
           /\ RecordOf(i) \in Range(result)

----------------------------------------------------------------------------
(* C8: analyze_repo on a reachable repository returns a record whose           *)
(* build_tools is maven for pom.xml then ant for build.xml and whose           *)
(* frameworks is angular exactly when package.json is there, parses and lists  *)
(* @angular/core among its dependencies; a lookup that fails counts as a file  *)
(* that is absent, and package.json never makes the result the empty mapping.  *)

\* the file is there and the lookups of it did not fail
Found(present, lookups) == present /\ lookups \cap hist.failing = {}

ListsAngular(file) ==
    /\ file # NoneV
    /\ file[1].parsed # NoneV
    /\ file[1].parsed[1].dependencies # NoneV
    /\ "@angular/core" \in file[1].parsed[1].dependencies[1]

C8_AnalyzeResult ==
    (/\ op = "analyze" /\ pc = "done"
     /\ UrlParses(args.repo_url) /\ ~hist.unreachable /\ "topics" \notin hist.failing) =>
        /\ result # EmptyDict
        /\ result.build_tools =
               (IF Found(locals.repo.pom_xml, {"pom.xml"}) THEN <<"maven">> ELSE << >>)
               \o (IF Found(locals.repo.build_xml, {"build.xml"}) THEN <<"ant">> ELSE << >>)
        /\ result.frameworks =
               (IF /\ Found(locals.repo.package_json # NoneV,
                            {"package.json", "package.json content"})
                   /\ ListsAngular(locals.repo.package_json)
                THEN <<"angular">> ELSE << >>)

----------------------------------------------------------------------------
(* C9: search_java_version_repos with a java_version other than 8, 11, 17 and  *)
(* 21 builds no query string, makes no search call, raises nothing and returns *)
(* the empty list, whatever build_tool, stars and max_results are.             *)

SupportedVersions == {"8", "11", "17", "21"}

C9_UnsupportedVersion ==
    (op = "java" /\ args.java_version \notin SupportedVersions) =>
        /\ version_queries = << >>
        /\ calls = << >>
        /\ ~raised
        /\ pc \in {"start", "query", "done"}
        /\ pc = "query" => ENABLED JavaFinish
        /\ pc = "done" => result = << >>

\* the call returned for version 1.8 with a build tool, a star minimum and a cap
C9_Witness ==
    /\ op = "java" /\ pc = "done"
    /\ args.java_version = "1.8"
    /\ args.build_tool = "maven" /\ args.stars = Some(100) /\ args.max_results = 5
    /\ result = << >>

----------------------------------------------------------------------------
(* C10: search_repos makes exactly one search call, with the free text         *)
(* followed by language:<L>, stars:><n>, forks:><n> and one topic:<t> per      *)
(* topic, in this order, each clause there exactly when its criterion is       *)
(* supplied: for stars and forks, for every integer supplied, 0 included.      *)

ClaimedQuery(a) ==
    a.query
      \o (IF a.language # NoneV /\ a.language # Some("")
          THEN " language:" \o a.language[1] ELSE "")
      \o (IF a.stars # NoneV THEN " stars:>" \o ToString(a.stars[1]) ELSE "")
      \o (IF a.forks # NoneV THEN " forks:>" \o ToString(a.forks[1]) ELSE "")
      \o (IF a.topics # NoneV
          THEN Join("", [i \in 1..Len(a.topics[1]) |-> " topic:" \o a.topics[1][i]])
          ELSE "")

C10_QueryClauses ==
    (op = "generic" /\ pc # "start") =>
        /\ Len(calls) = 1
        /\ calls[1] = ClaimedQuery(args)

\* the same for the calls in which no integer minimum is 0
C10_QueryClausesNonZero ==
    (op = "generic" /\ args.stars # Some(0) /\ args.forks # Some(0)) => C10_QueryClauses

----------------------------------------------------------------------------
(* C11: analyze_repo given a URL from which owner and name cannot be parsed     *)
(* (fewer than two '/'-separated segments once the slashes at its ends are      *)
(* stripped) logs the failure, issues no provider call, raises nothing and      *)
(* returns the empty mapping. More generally analyze_repo never raises, and     *)
(* every failure that reaches its handler (an unreachable repository, the       *)
(* topic fetch, an error while package.json is examined) is logged and gives    *)
(* the empty mapping; the empty mapping is returned in no other case.           *)

\* the URL has no '/' between its first and its last character other than '/'
Malformed(repo_url) == ~Contains(Strip(repo_url, "/"), "/")

C11_AnalyzeNeverRaises ==
    op = "analyze" =>
        /\ raised = FALSE
        /\ Malformed(args.repo_url) =>
              /\ calls = << >> /\ faults = 0 /\ locals = << >>
              /\ pc = "start" => ENABLED AnalyzeBadUrl
              /\ pc = "done" => (result = EmptyDict /\ hist.logged)
        /\ pc = "done" =>
              /\ hist.logged <=> result = EmptyDict
              /\ (hist.unreachable \/ "topics" \in hist.failing) => result = EmptyDict

\* the analysis of "repoY/" has ended: logged, the empty mapping, no call made
C11_Witness ==
    /\ op = "analyze" /\ pc = "done" /\ args.repo_url = "repoY/"
    /\ result = EmptyDict /\ hist.logged /\ calls = << >> /\ ~raised

----------------------------------------------------------------------------
(* C12: in search_java_version_repos, after every processed hit and at every    *)
(* query boundary the names marked as seen are the names of the records         *)
(* collected so far, whatever provider calls fail; so a repository that some    *)
(* query returned is absent from the result only because the cap was reached.   *)

C12_SeenEqualsCollected ==
    (op = "java" /\ pc \in {"query", "iter", "done"}) =>
        seen_repos = RecordNames(all_repos)

\* what does hold: every collected record's name is marked as seen
C12_CollectedAreSeen ==
    (op = "java" /\ pc \in {"query", "iter", "done"}) =>
        RecordNames(all_repos) \subseteq seen_repos

\* a run in which a repository is marked as seen, has no record, is yielded
\* again by a later query below the cap, and is absent from the result
C12_LostRepository ==
    /\ op = "java" /\ pc = "done"
    /\ Len(result) < args.max_results
    /\ hist.passed # NoneV
    /\ hist.passed[1].full_name \notin RecordNames(result)

====
